---- MODULE Spec2Model ----
(***************************************************************************)
(* The sandbox code executor of src/sandbox/main.py: one process, one      *)
(* namespace (session_globals), one scratch directory, the plotting        *)
(* library's registry of open figures, and the two process-wide output     *)
(* streams.  Every handler is an "async def" with no suspension point, so  *)
(* the event loop runs it to its return before it starts another.          *)
(*                                                                         *)
(* Submitted code is a sequence of statements; the statements are drawn    *)
(* one at a time while the code runs (what follows the point where a run   *)
(* stops is never executed, so it is never drawn).                         *)
(***************************************************************************)
EXTENDS Integers, Sequences, FiniteSets, TLC

\* ---------------------------------------------------------------- bounds
\* Longest submitted code, in statements.
MaxStmts == 2
\* Longest submitted code, in statements, where the code writes output.
MaxOutStmts == 3
\* The wall clock runs over the seconds 0..MaxClock.
MaxClock == 1
\* The wall clock runs over the seconds 0..MaxTime where a run is timed.
MaxTime == 3
\* Most figures the registry holds at once.
MaxFigs == 2

\* ------------------------------------------------------------- constants
\* CodeExecutionRequest.timeout's default.
DefaultTimeout == 30
\* The requests a client may have in flight at once.
Reqs == {"A", "B"}
\* The timeout values a request carries.
Timeouts == {1, DefaultTimeout}

\* -------------------------------------------------------------- namespace
ScratchDirName == "__scratch_dir__"
\* str(scratch_dir)
ScratchPath == "/scratch"
\* The names the preamble binds: exec adds __builtins__, the imports bind
\* their aliases (plt stands for them), the def binds save_plot.
PreambleNames == {"__builtins__", "plt", "save_plot"}
UserNames == {"x", "time"}
Names == PreambleNames \cup UserNames \cup {ScratchDirName}
\* The mark of a name the mapping does not hold.
Unbound == "<unbound>"
\* The value the preamble binds a name to (a module, a function).
PreambleValue == "<preamble>"
\* session_globals = {} and session_globals.clear()
EmptyGlobals == [n \in Names |-> Unbound]

\* exec(preamble, g): binds every preamble name in g, keeps g's other names.
StartupEvent(g) == [n \in Names |-> IF n \in PreambleNames THEN PreambleValue ELSE g[n]]

\* Faulty variant: each request runs in a namespace of its own, built afresh.
InjectIntoFreshGlobals(g) == [StartupEvent(EmptyGlobals) EXCEPT ![ScratchDirName] = ScratchPath]

\* session_globals['__scratch_dir__'] = str(scratch_dir)
InjectScratchDir(g) == [g EXCEPT ![ScratchDirName] = ScratchPath]

\* Faulty variant: the reset re-runs the preamble without clearing first.
ResetGlobalsNoClear(g) == StartupEvent(g)

\* session_globals.clear(), then startup_event()
ResetGlobals(g) == StartupEvent(EmptyGlobals)

\* list(session_globals.keys())
SessionVariables(g) == {n \in Names : g[n] # Unbound}

\* ------------------------------------------------------------- exceptions
NoExc == [type |-> "none", msg |-> ""]
NameError(n) == [type |-> "NameError",
                 msg |-> IF n = "x" THEN "name 'x' is not defined"
                         ELSE IF n = "time" THEN "name 'time' is not defined"
                         ELSE "name 'plt' is not defined"]
AttributeError == [type |-> "AttributeError", msg |-> "'int' object has no attribute 'figure'"]
AssertionError == [type |-> "AssertionError", msg |-> ""]
UserException == [type |-> "Exception", msg |-> "boom"]
SystemExit == [type |-> "SystemExit", msg |-> ""]

\* isinstance(e, Exception): what "except Exception" catches.
IsException(e) == e.type \in {"NameError", "AttributeError", "AssertionError", "Exception"}

\* Faulty variant: the exception's class name instead of its message.
StrRepr(e) == e.type

\* str(e)
Str(e) == e.msg

\* traceback.format_exc()
FormatExc(e) == CASE e.type = "NameError" -> "Traceback: NameError"
                  [] e.type = "AttributeError" -> "Traceback: AttributeError"
                  [] e.type = "AssertionError" -> "Traceback: AssertionError"
                  [] e.type = "Exception" -> "Traceback: Exception: boom"
                  [] OTHER -> "Traceback: SystemExit"

\* error_msg = None
None == "<None>"

\* -------------------------------------------------------------- statements
BindX1 == "x = 1"
BindX2 == "x = 2"
BindPlt == "plt = 1"
DelPlt == "del plt"
BindDir == "__scratch_dir__ = 1"
AssertX == "assert x == 1"
PrintOut == "print('o')"
PrintErr == "__import__('sys').stderr.write('e')"
NewFig == "plt.figure().add_subplot()"
NewEmptyFig == "plt.figure()"
Raise == "raise Exception('boom')"
Exit == "raise SystemExit"
Spin == "while True: pass"
ImportTime == "import time"
SavePlot == "save_plot()"

AllVocab == {BindX1, BindX2, BindPlt, DelPlt, BindDir, AssertX, PrintOut, PrintErr,
             NewFig, NewEmptyFig, Raise, Exit, Spin, ImportTime, SavePlot}

\* What one statement does to the namespace g and the figure registry figs (the
\* axes flag of figure i is figs[i]; plt.figure() numbers a new figure max+1):
\* the exception it raises, the new namespace and registry, and what it writes
\* to sys.stdout and sys.stderr.
Outcome(e, g, figs, out, err) == [exc |-> e, g |-> g, figs |-> figs, out |-> out, err |-> err]

UsePlt(g, figs, axes) ==
    IF g["plt"] = Unbound THEN Outcome(NameError("plt"), g, figs, <<>>, <<>>)
    ELSE IF g["plt"] # PreambleValue THEN Outcome(AttributeError, g, figs, <<>>, <<>>)
    ELSE Outcome(NoExc, g, Append(figs, axes), <<>>, <<>>)

\* save_plot() with no argument, as the preamble defines it: the filename is
\* built from time.time(), and time is looked up in the namespace; plt.savefig
\* draws the current figure, which plt makes (empty) when none is open; the
\* name of the file is printed.
CallSavePlot(g, figs) ==
    IF g["time"] = Unbound THEN Outcome(NameError("time"), g, figs, <<>>, <<>>)
    ELSE IF g["plt"] = Unbound THEN Outcome(NameError("plt"), g, figs, <<>>, <<>>)
    ELSE IF g["plt"] # PreambleValue THEN Outcome(AttributeError, g, figs, <<>>, <<>>)
    ELSE Outcome(NoExc, g, IF figs = <<>> THEN <<FALSE>> ELSE figs, <<"Plot saved to">>, <<>>)

ExecStatement(stmt, g, figs) ==
    CASE stmt = BindX1 -> Outcome(NoExc, [g EXCEPT !["x"] = "1"], figs, <<>>, <<>>)
      [] stmt = BindX2 -> Outcome(NoExc, [g EXCEPT !["x"] = "2"], figs, <<>>, <<>>)
      [] stmt = BindPlt -> Outcome(NoExc, [g EXCEPT !["plt"] = "1"], figs, <<>>, <<>>)
      [] stmt = BindDir -> Outcome(NoExc, [g EXCEPT ![ScratchDirName] = "1"], figs, <<>>, <<>>)
      [] stmt = DelPlt ->
            IF g["plt"] = Unbound THEN Outcome(NameError("plt"), g, figs, <<>>, <<>>)
            ELSE Outcome(NoExc, [g EXCEPT !["plt"] = Unbound], figs, <<>>, <<>>)
      [] stmt = AssertX ->
            IF g["x"] = Unbound THEN Outcome(NameError("x"), g, figs, <<>>, <<>>)
            ELSE IF g["x"] # "1" THEN Outcome(AssertionError, g, figs, <<>>, <<>>)
            ELSE Outcome(NoExc, g, figs, <<>>, <<>>)
      [] stmt = PrintOut -> Outcome(NoExc, g, figs, <<"o">>, <<>>)
      [] stmt = PrintErr -> Outcome(NoExc, g, figs, <<>>, <<"e">>)
      [] stmt = NewFig -> UsePlt(g, figs, TRUE)
      [] stmt = NewEmptyFig -> UsePlt(g, figs, FALSE)
      [] stmt = Raise -> Outcome(UserException, g, figs, <<>>, <<>>)
      [] stmt = Exit -> Outcome(SystemExit, g, figs, <<>>, <<>>)
      [] stmt = ImportTime -> Outcome(NoExc, [g EXCEPT !["time"] = "<module time>"], figs, <<>>, <<>>)
      [] stmt = SavePlot -> CallSavePlot(g, figs)
      [] OTHER -> Outcome(NoExc, g, figs, <<>>, <<>>)

\* The names a statement binds (to what) or unbinds, for the record of what a
\* run bound.
BoundBy(stmt, out, b) ==
    [n \in Names |-> IF out.exc = NoExc /\ stmt \in {BindX1, BindX2} /\ n = "x" THEN out.g[n]
                     ELSE IF out.exc = NoExc /\ stmt \in {BindPlt, DelPlt} /\ n = "plt" THEN out.g[n]
                     ELSE IF out.exc = NoExc /\ stmt = BindDir /\ n = ScratchDirName THEN out.g[n]
                     ELSE IF out.exc = NoExc /\ stmt = ImportTime /\ n = "time" THEN out.g[n]
                     ELSE b[n]]

\* ------------------------------------------------------------------- state
VARIABLES
    session_globals,   \* the Session Namespace: name -> value or Unbound
    figures,           \* the plotting library's open figures: figures[i] is
                       \* whether figure number i has axes
    scratch,           \* the regular files of /scratch: [fig, ts] is plot_<fig>_<ts>.png
    now,               \* int(time.time())
    sys_stdout,        \* what sys.stdout is: "orig", or the stdout_capture of a request
    sys_stderr,        \* what sys.stderr is: "orig", or the stderr_capture of a request
    console,           \* what reached the original streams since the last handler began
    frame,             \* per request in flight: the handler's position and locals
    serving,           \* the server process is up
    response,          \* the last response of a handler other than execute_code,
                       \* while no execute has begun since
    lastBound,         \* history: what the last execute to end bound, if it succeeded
    resetSince         \* history: a reset ran and no execute has begun since

vars == <<session_globals, figures, scratch, now, sys_stdout, sys_stderr, console,
          frame, serving, response, lastBound, resetSince>>

\* ---------------------------------------------------------- scratch files
\* Path.glob("*") yields the entries in the directory's order; an unchanged
\* directory is read in the same order every time.
FileBefore(a, b) == a.ts < b.ts \/ (a.ts = b.ts /\ a.fig <= b.fig)

RECURSIVE Glob(_)
Glob(dir) ==
    IF dir = {} THEN <<>>
    ELSE LET first == CHOOSE f \in dir : \A g \in dir : FileBefore(f, g)
         IN  <<first>> \o Glob(dir \ {first})

\* Faulty variant: the entry carries the time it was read at.
FileInfoWithReadTime(f) ==
    [name |-> f, type |-> ".png", size |-> <<"st_size", now>>, path |-> <<ScratchPath, f>>]

\* FileInfo(name, type, size, path) of a regular file.
FileInfoOf(f) ==
    [name |-> f, type |-> ".png", size |-> <<"st_size", f.fig>>, path |-> <<ScratchPath, f>>]

\* Where a pass over the n files of the directory stops: after all n, or, where
\* the file system fails, at the file after the first k.
Stops(faults, n) == IF faults THEN 0..n ELSE {n}

\* get_scratch_files() over the entries dir, when the pass stops after k
\* files: the list built so far is returned, and the error, if any, is printed.
GetScratchFiles(dir, k) ==
    [files |-> [i \in 1..k |-> FileInfoOf(dir[i])],
     printed |-> IF k < Len(dir) THEN <<"Error listing files">> ELSE <<>>]

\* Faulty variant: an unlink that fails is skipped, and the pass goes on.
RemainingSkipsFailed(dir, k) == IF k < Len(dir) THEN {dir[k + 1]} ELSE {}

\* The files clear_files leaves when the pass stops after k unlinks.
Remaining(dir, k) == {dir[i] : i \in (k + 1)..Len(dir)}

\* ---------------------------------------------------------------- responses
\* What a handler answers; unlinked (history) is how many files it deleted.
Response(op, status, message, files, names, timestamp, unlinked) ==
    [op |-> op, status |-> status, message |-> message, files |-> files,
     session_variables |-> names, timestamp |-> timestamp, unlinked |-> unlinked]

NoResponse == Response("none", 0, "", <<>>, {}, 0, 0)

\* Faulty variant: clear_files swallows the error.
ClearResponseAlwaysOk(left, unlinked) ==
    Response("DELETE /files", 200, "All files cleared", <<>>, {}, 0, unlinked)

\* What clear_files answers when it leaves the files left: the success message,
\* or HTTPException(500) with the error.
ClearResponse(left, unlinked) ==
    IF left = {} THEN Response("DELETE /files", 200, "All files cleared", <<>>, {}, 0, unlinked)
    ELSE Response("DELETE /files", 500, "Error clearing files: <error>", <<>>, {}, 0, unlinked)

NoResult == [stdout |-> <<>>, stderr |-> <<>>, success |-> FALSE, execution_time |-> 0,
             files |-> <<>>, error |-> None]

FreeFrame == [pc |-> "Free", timeout |-> DefaultTimeout, start_time |-> 0,
              stdout_capture |-> <<>>, stderr_capture |-> <<>>,
              success |-> FALSE, error_msg |-> None,
              old_stdout |-> "orig", old_stderr |-> "orig",
              ran |-> <<>>, exc |-> NoExc, bound |-> EmptyGlobals, after_reset |-> FALSE,
              saved |-> {}, result |-> NoResult]

\* The locals of a handler, beyond those of execute_code: ran (history) is the
\* statements of the code run so far, exc the exception the code raised, bound
\* (history) what the code has bound, after_reset (history) whether a reset ran
\* between the execute before this one and this one, saved (history) the files
\* its figure extraction wrote.

Init ==
    /\ session_globals = StartupEvent(EmptyGlobals)
    /\ figures = <<>>
    /\ scratch = {}
    /\ now = 0
    /\ sys_stdout = "orig"
    /\ sys_stderr = "orig"
    /\ console = <<>>
    /\ frame = [r \in Reqs |-> FreeFrame]
    /\ serving = TRUE
    /\ response = NoResponse
    /\ lastBound = EmptyGlobals
    /\ resetSince = FALSE

\* ------------------------------------------------------------- event loop
\* A handler is between its first and its last statement.
Running(r) == frame[r].pc \in {"Capturing", "Succeeded", "Failed"}

\* Faulty variant: a handler starts whatever the others are doing.
LoopAlwaysFree == TRUE

\* No handler is running: the loop may start one.  (A handler that has returned
\* still has its response to send; sending touches nothing shared and commutes
\* with every other step, so it is taken before the next handler starts.)
LoopFree == \A q \in Reqs : frame[q].pc \in {"Free", "Idle"}

\* The submitted code is in a loop that never ends.
Spinning(r) == frame[r].ran # <<>> /\ frame[r].ran[Len(frame[r].ran)] = Spin

\* The wall clock.
Tick(sc) ==
    /\ now < sc.clock
    /\ now' = now + 1
    /\ UNCHANGED <<session_globals, figures, scratch, sys_stdout, sys_stderr, console,
                   frame, serving, response, lastBound, resetSince>>

\* POST /execute arrives; its handler has not started.
Arrive(r, sc) ==
    /\ r \in sc.reqs
    /\ serving
    /\ frame[r].pc = "Free"
    /\ frame' = [frame EXCEPT ![r].pc = "Idle"]
    /\ UNCHANGED <<session_globals, figures, scratch, now, sys_stdout, sys_stderr, console,
                   serving, response, lastBound, resetSince>>

\* execute_code up to the exec: the start time, the two buffers, the injected
\* binding, the two redirections.
Begin(r, sc) ==
    /\ serving
    /\ frame[r].pc = "Idle"
    /\ LoopFree
    /\ \E t \in sc.timeouts :
         frame' = [frame EXCEPT ![r] = [FreeFrame EXCEPT !.pc = "Capturing",
                                                         !.timeout = t,
                                                         !.start_time = now,
                                                         !.old_stdout = sys_stdout,
                                                         !.old_stderr = sys_stderr,
                                                         !.after_reset = resetSince]]
    /\ session_globals' = InjectScratchDir(session_globals)
    /\ sys_stdout' = r
    /\ sys_stderr' = r
    /\ console' = <<>>
    /\ response' = NoResponse
    /\ resetSince' = FALSE
    /\ UNCHANGED <<figures, scratch, now, serving, lastBound>>

\* Faulty variant: both streams are redirected into stdout_capture.
WrittenMerged(fr, out, err) ==
    [q \in Reqs |-> [fr[q] EXCEPT !.stdout_capture = IF sys_stdout = q THEN @ \o out \o err ELSE @]]

\* The frames after text is written to the streams' current targets.
Written(fr, out, err) ==
    [q \in Reqs |-> [fr[q] EXCEPT !.stdout_capture = IF sys_stdout = q THEN @ \o out ELSE @,
                                  !.stderr_capture = IF sys_stderr = q THEN @ \o err ELSE @]]

\* What of the text reaches the original streams.
ToConsole(out, err) ==
    (IF sys_stdout = "orig" THEN out ELSE <<>>) \o (IF sys_stderr = "orig" THEN err ELSE <<>>)

\* Faulty variant: leaving the with block restores sys.stderr only.
ExitRedirectStderrOnly(r) == [out |-> sys_stdout, err |-> frame[r].old_stderr]

\* Leaving the with block, on any path: redirect_stderr.__exit__ and then
\* redirect_stdout.__exit__ put back what their __enter__ saved.
ExitRedirect(r) == [out |-> frame[r].old_stdout, err |-> frame[r].old_stderr]

\* The handler after statement stmt of the submitted code had outcome o.
AfterStatement(r, stmt, o) ==
    LET fr == Written(frame, o.out, o.err)
        ran == Append(frame[r].ran, stmt)
        bound == BoundBy(stmt, o, frame[r].bound)
    IN  IF o.exc = NoExc
        THEN \* the exec goes on
             /\ frame' = [fr EXCEPT ![r].ran = ran, ![r].bound = bound]
             /\ UNCHANGED <<sys_stdout, sys_stderr, serving, lastBound>>
        ELSE IF IsException(o.exc)
        THEN \* the with block is left, the except clause runs
             /\ frame' = [fr EXCEPT ![r].ran = ran,
                                    ![r].exc = o.exc,
                                    ![r].error_msg = Str(o.exc),
                                    ![r].stderr_capture = Append(@, FormatExc(o.exc)),
                                    ![r].pc = "Failed"]
             /\ sys_stdout' = ExitRedirect(r).out
             /\ sys_stderr' = ExitRedirect(r).err
             /\ UNCHANGED <<serving, lastBound>>
        ELSE \* the with block is left, no clause catches: the exception leaves
             \* the handler, and the server either ends with it or only drops
             \* the request
             /\ frame' = [fr EXCEPT ![r].ran = ran, ![r].exc = o.exc, ![r].pc = "Escaped"]
             /\ sys_stdout' = ExitRedirect(r).out
             /\ sys_stderr' = ExitRedirect(r).err
             /\ serving' \in BOOLEAN
             /\ lastBound' = EmptyGlobals

\* The file a statement writes: save_plot() that does not raise writes
\* plot_<int(time.time())>.png.
SavedBy(stmt, o) == IF stmt = SavePlot /\ o.exc = NoExc THEN {[fig |-> 0, ts |-> now]} ELSE {}

\* exec(request.code, session_globals), one statement of the code.
ExecStep(r, sc) ==
    /\ serving
    /\ frame[r].pc = "Capturing"
    /\ ~Spinning(r)
    /\ Len(frame[r].ran) < sc.stmts
    /\ \E stmt \in sc.vocab :
         /\ stmt \in {NewFig, NewEmptyFig} => Len(figures) < MaxFigs
         /\ LET o == ExecStatement(stmt, session_globals, figures)
            IN  /\ session_globals' = o.g
                /\ figures' = o.figs
                /\ console' = console \o ToConsole(o.out, o.err)
                /\ scratch' = scratch \cup SavedBy(stmt, o)
                /\ AfterStatement(r, stmt, o)
    /\ UNCHANGED <<now, response, resetSince>>

\* plot_<i>_<int(time.time())>.png
PlotFile(i) == [fig |-> i, ts |-> now]

\* capture_matplotlib_figures() when savefig raises at figure bad (0: at none):
\* the files written, the registry afterwards, what it prints.
CaptureMatplotlibFigures(figs, bad) ==
    [saved |-> {PlotFile(i) : i \in {j \in 1..Len(figs) : figs[j] /\ (bad = 0 \/ j < bad)}},
     figs |-> IF bad = 0 THEN <<>> ELSE figs,
     printed |-> IF bad = 0 THEN <<>> ELSE <<"Error capturing matplotlib figures">>]

\* Faulty variant: capture_matplotlib_figures prints the error and raises it
\* again, so what savefig raises reaches the except clause of execute_code.
FinishCaptureRaises(r) ==
    /\ serving
    /\ frame[r].pc = "Capturing"
    /\ ~Spinning(r)
    /\ \E bad \in {0} \cup {j \in 1..Len(figures) : figures[j]} :
         LET c == CaptureMatplotlibFigures(figures, bad)
         IN  /\ scratch' = scratch \cup c.saved
             /\ figures' = c.figs
             /\ console' = console \o c.printed
             /\ frame' = IF bad = 0
                         THEN [frame EXCEPT ![r].pc = "Succeeded", ![r].success = TRUE]
                         ELSE [frame EXCEPT ![r].pc = "Failed",
                                            ![r].exc = UserException,
                                            ![r].error_msg = Str(UserException),
                                            ![r].stderr_capture = Append(@, FormatExc(UserException))]
    /\ sys_stdout' = ExitRedirect(r).out
    /\ sys_stderr' = ExitRedirect(r).err
    /\ UNCHANGED <<session_globals, now, serving, response, lastBound, resetSince>>

\* Faulty variant: capture_matplotlib_figures() is called inside the with block.
ExtractorStdoutInsideWith(r) == sys_stdout

\* sys.stdout when capture_matplotlib_figures() runs: the call comes after the
\* with block, so it is what leaving the block restored.
ExtractorStdout(r) == ExitRedirect(r).out

\* The submitted code ends without raising: the with block is left, the
\* figures are captured (what that prints goes to the restored sys.stdout),
\* success = True.
Finish(r) ==
    /\ serving
    /\ frame[r].pc = "Capturing"
    /\ ~Spinning(r)
    /\ \E bad \in {0} \cup {j \in 1..Len(figures) : figures[j]} :
         LET c == CaptureMatplotlibFigures(figures, bad)
             restored == ExtractorStdout(r)
             fr == [q \in Reqs |-> [frame[q] EXCEPT !.stdout_capture =
                                        IF restored = q THEN @ \o c.printed ELSE @]]
         IN  /\ scratch' = scratch \cup c.saved
             /\ figures' = c.figs
             /\ console' = console \o (IF restored = "orig" THEN c.printed ELSE <<>>)
             /\ frame' = [fr EXCEPT ![r].pc = "Succeeded", ![r].success = TRUE,
                                    ![r].saved = c.saved]
    /\ sys_stdout' = ExitRedirect(r).out
    /\ sys_stderr' = ExitRedirect(r).err
    /\ UNCHANGED <<session_globals, now, serving, response, lastBound, resetSince>>

\* Faulty variant: the figures are captured after the try statement, on both paths.
ReportAfterCapture(r, sc) ==
    LET c == CaptureMatplotlibFigures(figures, 0)
    IN  /\ serving
        /\ frame[r].pc \in {"Succeeded", "Failed"}
        /\ scratch' = scratch \cup c.saved
        /\ figures' = c.figs
        /\ frame' = [frame EXCEPT ![r].pc = "Reported",
                                  ![r].result = [stdout |-> frame[r].stdout_capture,
                                                 stderr |-> frame[r].stderr_capture,
                                                 success |-> frame[r].success,
                                                 execution_time |-> now - frame[r].start_time,
                                                 files |-> GetScratchFiles(Glob(scratch \cup c.saved),
                                                              Cardinality(scratch \cup c.saved)).files,
                                                 error |-> frame[r].error_msg]]
        /\ lastBound' = IF frame[r].success THEN frame[r].bound ELSE EmptyGlobals
        /\ UNCHANGED <<session_globals, now, sys_stdout, sys_stderr, console, serving,
                       response, resetSince>>

\* The elapsed time, the file list, the ExecutionResult.
Report(r, sc) ==
    /\ serving
    /\ frame[r].pc \in {"Succeeded", "Failed"}
    /\ \E dir \in {Glob(scratch)}, k \in Stops(sc.faults, Cardinality(scratch)) :
         LET listed == GetScratchFiles(dir, k)
         IN  /\ frame' = [Written(frame, listed.printed, <<>>) EXCEPT
                             ![r].pc = "Reported",
                             ![r].result = [stdout |-> frame[r].stdout_capture,
                                            stderr |-> frame[r].stderr_capture,
                                            success |-> frame[r].success,
                                            execution_time |-> now - frame[r].start_time,
                                            files |-> listed.files,
                                            error |-> frame[r].error_msg]]
             /\ console' = console \o ToConsole(listed.printed, <<>>)
    /\ lastBound' = IF frame[r].success THEN frame[r].bound ELSE EmptyGlobals
    /\ UNCHANGED <<session_globals, figures, scratch, now, sys_stdout, sys_stderr,
                   serving, response, resetSince>>

\* The response (or, for an exception that left the handler, nothing) has gone
\* to the client.
Return(r) ==
    /\ frame[r].pc \in {"Reported", "Escaped"}
    /\ frame' = [frame EXCEPT ![r] = FreeFrame]
    /\ UNCHANGED <<session_globals, figures, scratch, now, sys_stdout, sys_stderr, console,
                   serving, response, lastBound, resetSince>>

\* Faulty variant: setting up the plotting environment again closes the figures.
ResetSessionClosesFigures ==
    /\ serving
    /\ LoopFree
    /\ session_globals' = ResetGlobals(session_globals)
    /\ figures' = <<>>
    /\ response' = Response("DELETE /session", 200, "Session reset", <<>>, {}, 0, 0)
    /\ resetSince' = TRUE
    /\ UNCHANGED <<scratch, now, sys_stdout, sys_stderr, console, frame, serving, lastBound>>

\* DELETE /session
ResetSession ==
    /\ serving
    /\ LoopFree
    /\ session_globals' = ResetGlobals(session_globals)
    /\ response' = Response("DELETE /session", 200, "Session reset", <<>>, {}, 0, 0)
    /\ resetSince' = TRUE
    /\ UNCHANGED <<figures, scratch, now, sys_stdout, sys_stderr, console, frame, serving,
                   lastBound>>

\* DELETE /files: the regular files are unlinked in the directory's order,
\* until none is left or an unlink raises.
ClearFiles(sc) ==
    /\ serving
    /\ LoopFree
    /\ \E dir \in {Glob(scratch)}, k \in Stops(sc.faults, Cardinality(scratch)) :
         /\ scratch' = Remaining(dir, k)
         /\ response' = ClearResponse(Remaining(dir, k), k)
    /\ UNCHANGED <<session_globals, figures, now, sys_stdout, sys_stderr, console, frame,
                   serving, lastBound, resetSince>>

\* GET /files
ListFiles(sc) ==
    /\ serving
    /\ LoopFree
    /\ \E dir \in {Glob(scratch)}, k \in Stops(sc.faults, Cardinality(scratch)) :
         LET listed == GetScratchFiles(dir, k)
         IN  /\ response' = Response("GET /files", 200, "", listed.files, {}, 0, 0)
             /\ frame' = Written(frame, listed.printed, <<>>)
             /\ console' = ToConsole(listed.printed, <<>>)
    /\ UNCHANGED <<session_globals, figures, scratch, now, sys_stdout, sys_stderr,
                   serving, lastBound, resetSince>>

\* GET /status
GetStatus(sc) ==
    /\ serving
    /\ LoopFree
    /\ \E dir \in {Glob(scratch)}, k \in Stops(sc.faults, Cardinality(scratch)) :
         LET listed == GetScratchFiles(dir, k)
         IN  /\ response' = Response("GET /status", 200, "", listed.files,
                                     SessionVariables(session_globals), 0, 0)
             /\ frame' = Written(frame, listed.printed, <<>>)
             /\ console' = ToConsole(listed.printed, <<>>)
    /\ UNCHANGED <<session_globals, figures, scratch, now, sys_stdout, sys_stderr,
                   serving, lastBound, resetSince>>

\* GET /healthz
HealthCheck ==
    /\ serving
    /\ LoopFree
    /\ response' = Response("GET /healthz", 200, "healthy", <<>>, {}, now, 0)
    /\ UNCHANGED <<session_globals, figures, scratch, now, sys_stdout, sys_stderr, console,
                   frame, serving, lastBound, resetSince>>

\* A scenario bounds what the clients send and how far the clock runs: the
\* statements the submitted code is made of, its length, the requests in
\* flight, the timeouts they carry, the last second of the clock, and whether
\* operations on the scratch directory's files may fail.
Scenario(vocab, stmts, reqs, timeouts, clock, faults) ==
    [vocab |-> vocab, stmts |-> stmts, reqs |-> reqs, timeouts |-> timeouts, clock |-> clock,
     faults |-> faults]

NextIn(sc) ==
    \/ Tick(sc)
    \/ \E r \in Reqs : Arrive(r, sc)
    \/ \E r \in Reqs : Begin(r, sc)
    \/ \E r \in Reqs : ExecStep(r, sc)
    \/ \E r \in Reqs : Finish(r)
    \/ \E r \in Reqs : Report(r, sc)
    \/ \E r \in Reqs : Return(r)
    \/ ResetSession
    \/ ClearFiles(sc)
    \/ ListFiles(sc)
    \/ GetStatus(sc)
    \/ HealthCheck

\* Every statement, both requests, both timeouts.
Next == NextIn(Scenario(AllVocab, MaxStmts, Reqs, Timeouts, MaxTime, TRUE))

Spec == Init /\ [][Next]_vars

\* Code that binds, unbinds and reads names.
NsScenario == Scenario({BindX1, BindX2, BindPlt, DelPlt, BindDir, AssertX, Raise},
                       MaxStmts, {"A"}, {DefaultTimeout}, MaxClock, FALSE)

NextNs == NextIn(NsScenario)

SpecNs == Init /\ [][NextNs]_vars

\* Code that writes to the two streams and raises.
OutScenario == Scenario({PrintOut, PrintErr, AssertX, Raise, Exit},
                        MaxOutStmts, {"A"}, {DefaultTimeout}, MaxClock, FALSE)

NextOut == NextIn(OutScenario)

SpecOut == Init /\ [][NextOut]_vars

\* Code that opens figures.
FigScenario == Scenario({NewFig, NewEmptyFig, Raise},
                        MaxStmts, {"A"}, {DefaultTimeout}, MaxClock, FALSE)

NextFig == NextIn(FigScenario)

SpecFig == Init /\ [][NextFig]_vars

\* Code that runs long, under both timeouts.
TimeScenario == Scenario({Spin, BindX1, Raise}, MaxStmts, {"A"}, Timeouts, MaxTime, FALSE)

NextTime == NextIn(TimeScenario)

SpecTime == Init /\ [][NextTime]_vars

\* Two requests in flight.
ConcScenario == Scenario({BindX1, AssertX, NewFig, Raise}, MaxStmts, Reqs,
                         {DefaultTimeout}, MaxClock, FALSE)

NextConc == NextIn(ConcScenario)

SpecConc == Init /\ [][NextConc]_vars

\* Code that opens figures, where operations on the scratch files may fail.
FilesScenario == Scenario({NewFig, Raise}, MaxStmts, {"A"}, {DefaultTimeout}, MaxClock, TRUE)

NextFiles == NextIn(FilesScenario)

SpecFiles == Init /\ [][NextFiles]_vars

\* Code that calls the preamble's helper.
HelperScenario == Scenario({SavePlot, ImportTime}, MaxStmts, {"A"},
                           {DefaultTimeout}, MaxClock, FALSE)

NextHelper == NextIn(HelperScenario)

SpecHelper == Init /\ [][NextHelper]_vars

\* Code that binds names and then raises, an Exception or not.
RollbackScenario == Scenario({BindX1, BindX2, AssertX, Raise, Exit}, MaxStmts, {"A"},
                             {DefaultTimeout}, MaxClock, FALSE)

NextRollback == NextIn(RollbackScenario)

SpecRollback == Init /\ [][NextRollback]_vars

\* ------------------------------------------------------------------ claims
\* The steps of a handler, as the change of its position.
BeginStep(r) == frame[r].pc = "Idle" /\ frame'[r].pc = "Capturing"
FinishStep(r) == frame[r].pc = "Capturing" /\ frame'[r].pc = "Succeeded"
ReportStep(r) == frame[r].pc \in {"Succeeded", "Failed"} /\ frame'[r].pc = "Reported"

\* Namespace persistence over the names in ns, and its instance: when execute
\* B begins with no reset since execute A ended with success, every name of ns
\* that A bound is bound to the value A gave it; A = `x = 1` succeeds and binds
\* x to 1; B = `assert x == 1` then reports success=true, and after a reset
\* between the two it reports success=false with the NameError of x.
Persistence(ns) ==
    \A r \in Reqs :
       /\ BeginStep(r) /\ ~resetSince =>
             \A n \in ns : lastBound[n] # Unbound => session_globals'[n] = lastBound[n]
       /\ ReportStep(r) /\ frame[r].ran = <<BindX1>> =>
             frame'[r].result.success /\ lastBound'["x"] = "1"
       /\ ReportStep(r) /\ frame[r].ran = <<AssertX>> =>
             IF frame[r].after_reset
             THEN /\ ~frame'[r].result.success
                  /\ frame'[r].result.error = "name 'x' is not defined"
             ELSE lastBound["x"] = "1" => frame'[r].result.success

\* C1 (as stated): namespace persistence for every name A bound, the injected
\* __scratch_dir__ included.
C1_PersistsEveryName == [][Persistence(Names)]_vars

\* C1 (amended): namespace persistence for every name A bound other than
\* __scratch_dir__, which each execute rebinds to the scratch path before it
\* runs the code; B = `assert x == 1` succeeds after A = `x = 1`, and fails with
\* the NameError of x when a reset ran between the two.
C1_NamespacePersists == [][Persistence(Names \ {ScratchDirName})]_vars

\* B = `assert x == 1` has run to success after A bound x to 1, with no reset
\* between them.
C1_Witness ==
    \E r \in Reqs : /\ frame[r].pc = "Succeeded"
                    /\ frame[r].ran = <<AssertX>>
                    /\ ~frame[r].after_reset
                    /\ lastBound["x"] = "1"

\* C2: reset completeness: after a reset, until the next execute begins, the
\* namespace binds exactly the preamble names (those bound right after startup),
\* each to its preamble value; session_variables lists no other name.
C2_ResetCompleteness ==
    resetSince =>
        /\ SessionVariables(session_globals) = PreambleNames
        /\ session_globals = StartupEvent(EmptyGlobals)

\* A reset has run after an execute that bound x and replaced plt (and was
\* given __scratch_dir__, as every execute is).
C2_Witness ==
    /\ resetSince
    /\ lastBound["x"] = "1"
    /\ lastBound["plt"] = "1"

\* C3: a returned result has success=false iff the code raised; then error is
\* the exception's message, and with success=true error is null.
C3_ResultInvariant ==
    \A r \in Reqs : frame[r].pc = "Reported" =>
        LET res == frame[r].result
        IN  /\ (~res.success) <=> (frame[r].exc # NoExc)
            /\ ~res.success => res.error = frame[r].exc.msg
            /\ res.success => res.error = None

\* A result reports the NameError of x.
C3_Witness ==
    \E r \in Reqs : /\ frame[r].pc = "Reported"
                    /\ ~frame[r].result.success
                    /\ frame[r].exc.type = "NameError"
                    /\ frame[r].result.error = "name 'x' is not defined"

\* C4: whatever the submitted code raises, the request ends in a structured
\* result and the service keeps serving: no exception leaves the handler, and
\* the server stays up.
C4_NeverCrashes ==
    /\ serving
    /\ \A r \in Reqs : frame[r].pc # "Escaped"

\* The text a run of code wrote to stdout, and to stderr.
StdoutOf(code) == [i \in 1..Len(SelectSeq(code, LAMBDA st : st = PrintOut)) |-> "o"]
StderrOf(code) == [i \in 1..Len(SelectSeq(code, LAMBDA st : st = PrintErr)) |-> "e"]

\* C5: when the code raised, the result's stdout is exactly what the code wrote
\* to stdout before the raise, its stderr what the code wrote to stderr before
\* the raise followed by the traceback, success=false, error the message.
C5_OutputCapture ==
    \A r \in Reqs : frame[r].pc = "Reported" /\ frame[r].exc # NoExc =>
        LET res == frame[r].result
        IN  /\ res.stdout = StdoutOf(frame[r].ran)
            /\ res.stderr = Append(StderrOf(frame[r].ran), FormatExc(frame[r].exc))
            /\ ~res.success
            /\ res.error = frame[r].exc.msg

\* Code that wrote to both streams and then raised has reported.
C5_Witness ==
    \E r \in Reqs : /\ frame[r].pc = "Reported"
                    /\ frame[r].ran = <<PrintOut, PrintErr, Raise>>
                    /\ frame[r].result.stdout = <<"o">>
                    /\ frame[r].result.stderr = <<"e", "Traceback: Exception: boom">>

\* C6: a successful execute whose code produced one non-empty figure, with no
\* other figure open and the figure saved, adds exactly one file to the scratch
\* directory: the name it writes is the name of no file a prior run left there.
C6_OneNewDistinctFile ==
    [][\A r \in Reqs :
          FinishStep(r) /\ frame[r].ran = <<NewFig>> /\ figures = <<TRUE>> /\ figures' = <<>>
              => Cardinality(scratch' \ scratch) = 1]_vars

\* C7: after every extraction pass, hence in every execute that has reached
\* success=true, the registry of open figures is empty.
C7_RegistryEmptyAfterExtraction ==
    \A r \in Reqs : frame[r].pc = "Succeeded" => figures = <<>>

\* Sequence a is a prefix of sequence b: every figure open before is open after.
IsPrefix(a, b) == Len(a) <= Len(b) /\ \A i \in 1..Len(a) : a[i] = b[i]

\* A step of handler r other than the end of its code without a raise.
StepOffSuccess(r) ==
    /\ frame[r].pc \in {"Idle", "Capturing", "Failed"}
    /\ frame'[r] # frame[r]
    /\ ~FinishStep(r)

\* C8: no step of an execute outside the success path (so no step of an execute
\* that reports success=false) writes a file to the scratch directory or closes
\* a figure, and a figure leaves the registry only in the extraction pass of an
\* execute whose code ended without raising.
C8_FailurePathKeepsFigures ==
    [][/\ \A r \in Reqs : StepOffSuccess(r) => scratch' = scratch /\ IsPrefix(figures, figures')
       /\ ~IsPrefix(figures, figures') => \E r \in Reqs : FinishStep(r)]_vars

\* An execute has reported success=false and the non-empty figure its code
\* opened before the raise is still open.
C8_Witness ==
    \E r \in Reqs : /\ frame[r].pc = "Reported"
                    /\ ~frame[r].result.success
                    /\ frame[r].ran = <<NewFig, Raise>>
                    /\ figures # <<>>
                    /\ figures[Len(figures)]

\* C9 (as stated): two execute requests in flight at the same time are not
\* serialized: while the one runs its code, the other, waiting to start, can
\* start.
C9_NotSerialized ==
    \A a, b \in Reqs :
        a # b /\ Running(a) /\ frame[b].pc = "Idle" => ENABLED Begin(b, ConcScenario)

\* C9 (amended): two execute requests in flight at the same time are
\* serialized: no handler is between its start and its result while another
\* is, so no execution reads or overwrites a binding or a figure of another
\* that has not reached Reported.
C9_Serialized ==
    \A a, b \in Reqs : a # b => ~(Running(a) /\ Running(b))

\* Two requests are in flight: the one has bound a name and not reported, the
\* other waits.
C9_Witness ==
    \E a, b \in Reqs : /\ a # b
                       /\ frame[a].pc = "Capturing"
                       /\ frame[a].ran = <<BindX1>>
                       /\ frame[b].pc = "Idle"

\* C10: an execute with timeout t is never still running its code more than
\* about t seconds (t and a second's slack) after it started.
C10_TimeoutEnforced ==
    \A r \in Reqs : frame[r].pc = "Capturing" => now - frame[r].start_time <= frame[r].timeout + 1

\* The elements of a sequence.
Range(seq) == {seq[i] : i \in 1..Len(seq)}

\* The steps of the other handlers, as the change they make.
ClearStep == response'.op = "DELETE /files" /\ (response' # response \/ scratch' # scratch)
ListingOps == {"GET /files", "GET /status"}
ListingStep == response'.op \in ListingOps /\ response' # response

\* files is the FileInfo sequence of the directory dir: one entry per file,
\* with its name, type, size and path, in the directory's order.
IsListingOf(files, dir) ==
    /\ Len(files) = Cardinality(dir)
    /\ {files[i].name : i \in 1..Len(files)} = dir
    /\ \A i \in 1..Len(files) : files[i] = FileInfoOf(files[i].name)
    /\ \A i, j \in 1..Len(files) : i < j => FileBefore(files[i].name, files[j].name)

\* C11: once DELETE /files has answered with success, a GET /files that
\* follows with no execute in between answers with the empty list; and DELETE
\* /files on a directory without regular files answers with success and
\* changes nothing of the directory, the namespace or the figures.
C11_ClearSemantics ==
    [][/\ (response.op = "DELETE /files" /\ response.status = 200 /\ response'.op = "GET /files")
            => response'.files = <<>>
       /\ (scratch = {} /\ ClearStep)
            => /\ response'.status = 200
               /\ response'.message = "All files cleared"
               /\ UNCHANGED <<scratch, session_globals, figures>>]_vars

\* DELETE /files has unlinked a file and answered with success.
C11_Witness ==
    response.op = "DELETE /files" /\ response.status = 200 /\ response.unlinked > 0

\* C12: whenever no execute is between redirecting the streams and leaving
\* the with block (it has not started, or its code ended, or its code raised
\* an exception of any kind), sys.stdout and sys.stderr are the original streams.
C12_StreamsRestored ==
    (\A r \in Reqs : frame[r].pc # "Capturing") => sys_stdout = "orig" /\ sys_stderr = "orig"

\* An execute wrote to its stdout capture, then its code raised: the streams
\* are the original ones again.
C12_Witness ==
    \E r \in Reqs : /\ frame[r].pc = "Failed"
                     /\ frame[r].stdout_capture # <<>>
                     /\ sys_stdout = "orig"
                     /\ sys_stderr = "orig"

\* C13: a listing of the scratch directory that fails, at whatever file,
\* returns the empty list (in GET /files, in GET /status and in the result
\* of an execute).
C13_ListingErrorYieldsEmpty ==
    "Error listing files" \in Range(console)
        => /\ response.op \in ListingOps => response.files = <<>>
           /\ \A r \in Reqs : frame[r].pc = "Reported" => frame[r].result.files = <<>>

\* C14: code that is save_plot() alone, run in the namespace as initialize
\* leaves it, with no name bound by a user, does not raise and writes the
\* file to the scratch directory.
C14_SavePlotWorks ==
    \A r \in Reqs :
        (/\ frame[r].ran = <<SavePlot>>
         /\ \A n \in UserNames : session_globals[n] = Unbound
         /\ \A n \in PreambleNames : session_globals[n] = PreambleValue)
        => /\ frame[r].exc = NoExc
           /\ \E f \in scratch : f.fig = 0

\* C15: an execute whose code did not raise and whose figure extraction failed
\* at savefig still reports success = true and error = null, with the listing
\* of the scratch directory as it is.
C15_ExtractionErrorIsolated ==
    \A r \in Reqs :
        (frame[r].pc = "Reported" /\ "Error capturing matplotlib figures" \in Range(console))
        => /\ frame[r].result.success
           /\ frame[r].result.error = None
           /\ IsListingOf(frame[r].result.files, scratch)

\* The extraction saved the first figure and failed at the second; the result
\* reports success and lists the file saved.
C15_Witness ==
    \E r \in Reqs : /\ frame[r].pc = "Reported"
                     /\ "Error capturing matplotlib figures" \in Range(console)
                     /\ frame[r].result.success
                     /\ frame[r].result.files # <<>>
                     /\ figures # <<>>

\* C16: when DELETE /files leaves a file, it has answered with status 500
\* and the error message, not with success; the files it leaves are those the
\* pass had not reached (the failing one and those after it in the
\* directory's order), and those before are gone.
C16_ClearFailure ==
    [][ClearStep =>
         IF scratch' = {} THEN response'.status = 200
         ELSE /\ response'.status = 500
              /\ response'.message = "Error clearing files: <error>"
              /\ \E dir \in {Glob(scratch)}, k \in 0..(Cardinality(scratch) - 1) :
                    /\ response'.unlinked = k
                    /\ scratch' = {dir[i] : i \in (k + 1)..Len(dir)}]_vars

\* DELETE /files unlinked a file, then failed: status 500, a file is left.
C16_Witness ==
    /\ response.op = "DELETE /files"
    /\ response.status = 500
    /\ response.unlinked > 0
    /\ scratch # {}

\* C17: from the start of an execute until it has its result, no other
\* handler takes a step: no other execute changes its position (a request
\* may arrive and wait), none of reset, clear, list, status and health
\* answers, and the namespace, the figures, the scratch directory and the
\* streams change only in a step of the execute itself.
C17_RunsToCompletion ==
    [][\A r \in Reqs :
         Running(r) =>
           /\ \A q \in Reqs \ {r} :
                 \/ frame'[q] = frame[q]
                 \/ frame[q].pc = "Free" /\ frame'[q] = [frame[q] EXCEPT !.pc = "Idle"]
           /\ response' = response
           /\ resetSince' = resetSince
           /\ frame'[r] = frame[r]
                 => UNCHANGED <<session_globals, figures, scratch, sys_stdout, sys_stderr>>]_vars

\* An execute has run its code and not yet reported; another request waits.
C17_Witness ==
    \E a, b \in Reqs : /\ a # b
                       /\ frame[a].pc = "Succeeded"
                       /\ frame[a].ran # <<>>
                       /\ frame[b].pc = "Idle"

\* The listing that the last handler made (console) or that this step makes
\* (console') printed no error.
ListedAll(printed) == "Error listing files" \notin Range(printed)

\* C19: GET /files and GET /status change neither the scratch directory, nor
\* the namespace, nor the figures; a listing that meets no error answers with
\* the FileInfo sequence of the directory as it is, and when it follows
\* another such listing with no write or delete in between, with the same
\* sequence (names, sizes, order).
C19_ListingReadOnly ==
    [][/\ ListingStep => /\ UNCHANGED <<scratch, session_globals, figures>>
                         /\ ListedAll(console') => IsListingOf(response'.files, scratch')
       /\ (/\ response.op \in ListingOps /\ ListedAll(console)
           /\ response'.op \in ListingOps /\ ListedAll(console'))
            => response'.files = response.files]_vars

\* GET /status has listed two files, at a later second than they were written.
C19_Witness ==
    /\ response.op = "GET /status"
    /\ ListedAll(console)
    /\ Len(response.files) >= 2
    /\ \A i \in 1..Len(response.files) : response.files[i].name.ts < now

\* The moves of the per-execution state machine.
StateMachineMoves ==
    {<<"Free", "Idle">>, <<"Idle", "Capturing">>, <<"Capturing", "Succeeded">>,
     <<"Capturing", "Failed">>, <<"Succeeded", "Reported">>, <<"Failed", "Reported">>,
     <<"Reported", "Free">>}

\* C20: an execution moves only Idle -> Capturing -> (Succeeded | Failed) ->
\* Reported, never skipping or revisiting a state; in particular code that
\* stops, by ending or by raising, is followed by Succeeded or Failed.
C20_StateMachine ==
    [][\A r \in Reqs :
         frame'[r].pc # frame[r].pc => <<frame[r].pc, frame'[r].pc>> \in StateMachineMoves]_vars

\* C21: an execute whose code bound names and then raised reports
\* success = false (it is at its except clause or has its result, and the
\* result says success = false), and every name the code bound before the
\* raise is in the namespace with the value it was bound to, as long as no
\* later handler rebinds it.
C21_NoRollback ==
    \A r \in Reqs :
        (frame[r].exc # NoExc /\ \E n \in Names : frame[r].bound[n] # Unbound) =>
            /\ frame[r].pc \in {"Failed", "Reported"}
            /\ frame[r].pc = "Reported" => ~frame[r].result.success
            /\ \A n \in Names : frame[r].bound[n] # Unbound => session_globals[n] = frame[r].bound[n]

\* The figure extraction printed its error message.
ExtractorError == "Error capturing matplotlib figures"

\* C22: on the success path the result is assembled last (an execute between
\* its start and its report has none), after the capture is torn down and the
\* extractor has run: nothing the extractor prints is in the result's stdout
\* or stderr, and the files of the result, where the listing met no error,
\* hold every image the extractor saved for this execution.
C22_SuccessPathOrder ==
    \A r \in Reqs :
        /\ Running(r) => frame[r].result = NoResult
        /\ (frame[r].pc = "Reported" /\ frame[r].result.success) =>
              /\ ExtractorError \notin Range(frame[r].result.stdout)
              /\ ExtractorError \notin Range(frame[r].result.stderr)
              /\ ListedAll(console) =>
                    \A f \in frame[r].saved :
                        \E i \in 1..Len(frame[r].result.files) : frame[r].result.files[i].name = f

\* The extractor saved a figure, failed at the next and printed the error; the
\* result reports success and lists the file.
C22_Witness ==
    \E r \in Reqs : /\ frame[r].pc = "Reported"
                     /\ frame[r].result.success
                     /\ frame[r].saved # {}
                     /\ ExtractorError \in Range(console)
                     /\ ListedAll(console)
                     /\ Len(frame[r].result.files) = Cardinality(scratch)

\* DELETE /session has answered.
ResetStep ==
    /\ response'.op = "DELETE /session"
    /\ <<response', session_globals', resetSince'>> # <<response, session_globals, resetSince>>

\* C23: DELETE /session changes neither the figure registry nor the scratch
\* directory; a non-empty open figure stays open through every step (a
\* reset, a failed execute) but the figure extraction of an execute whose
\* code ended without raising, and that extraction, where savefig meets no
\* error, saves every non-empty open figure, whichever execution opened it.
C23_ResetKeepsFigures ==
    [][/\ ResetStep => UNCHANGED <<figures, scratch>>
       /\ \A i \in 1..Len(figures) :
            (figures[i] /\ ~\E r \in Reqs : FinishStep(r)) => (Len(figures') >= i /\ figures'[i])
       /\ \A r \in Reqs :
            (FinishStep(r) /\ ExtractorError \notin Range(console'))
                => \A i \in 1..Len(figures) : figures[i] => [fig |-> i, ts |-> now] \in scratch']_vars

\* The first execute after a reset, with empty code, has ended without
\* raising, and its extraction saved a figure its code did not open.
C23_Witness ==
    \E r \in Reqs : /\ frame[r].pc = "Succeeded"
                     /\ frame[r].after_reset
                     /\ frame[r].ran = <<>>
                     /\ frame[r].saved # {}
                     /\ frame[r].saved \subseteq scratch
====
